---------------------------- MODULE Spec2Model ----------------------------
(***************************************************************************)
(* A model of backend/main.py of the smartstudy backend: the text          *)
(* segmenter (chunk_text), the citation finder (find_citations), the LLM   *)
(* gateway (call_llm, get_fallback_response) and the two handlers that     *)
(* parse model output (generate_quiz, recommend_youtube).                  *)
(*                                                                         *)
(* A Python str is a sequence of one-character strings.  Model output is   *)
(* a sequence of lexical tokens (see the section on model output).         *)
(***************************************************************************)
EXTENDS Integers, Sequences, FiniteSets, TLC

VARIABLES
    pc,           \* "call": the operation has its inputs; "done": it returned
    query,        \* find_citations: query
    pages_text,   \* find_citations: the page map, in iteration order
    top_k,        \* find_citations: top_k
    citations,    \* find_citations: the returned list
    text,         \* chunk_text: text
    chunk_size,   \* chunk_text: chunk_size
    chunks,       \* chunk_text: the returned list
    api_key,      \* OPENROUTER_API_KEY
    db_connected, \* db.client is not None
    pdfs,         \* the "pdfs" collection: _id -> document
    quizzes,      \* the "quizzes" collection, in insertion order
    request,      \* the request (or the call's arguments) being served
    upstream,     \* what the completion API does when it is called
    llm_out,      \* what call_llm did: returned a text or raised
    reply,        \* the handler's HTTP response
    attempts,     \* the "attempts" collection, in insertion order
    chats,        \* the "chats" collection: _id -> document
    files,        \* the paths that exist in UPLOAD_DIR
    turns,        \* chat: the local variables of each request being served
    served        \* the number of requests received so far

citeVars == <<query, pages_text, top_k, citations>>

chunkVars == <<text, chunk_size, chunks>>

serverVars == <<api_key, db_connected, pdfs, quizzes, request, upstream, llm_out, reply>>

studyVars == <<attempts, chats, files, turns, served>>

vars == <<pc, citeVars, chunkVars, serverVars, studyVars>>

(***************************************************************************)
(* Bounds of the model and constants of the program.                       *)
(***************************************************************************)
MaxPieces == 3

MaxPages == 3

MaxK == 3

MaxTextLen == 8

MaxChunkSize == 5

MaxElements == 2

SnippetLimit == 200

SentenceLimit == 10

(***************************************************************************)
(* Python str operations.                                                  *)
(***************************************************************************)
Whitespace == {" ", "\n"}

Min(a, b) == IF a <= b THEN a ELSE b

Max(a, b) == IF a >= b THEN a ELSE b

Range(s) == {s[i] : i \in DOMAIN s}

\* The n-th smallest element of a finite set of integers.
Nth(S, n) == CHOOSE x \in S : Cardinality({y \in S : y <= x}) = n

\* s[:n] for n >= 0.
Take(s, n) == SubSeq(s, 1, Min(n, Len(s)))

\* s[:k] for any integer k: a negative k counts from the end.
SliceTo(s, k) == IF k >= 0 THEN Take(s, k) ELSE Take(s, Max(Len(s) + k, 0))

LowerChar(c) ==
    CASE c = "A" -> "a"
      [] c = "B" -> "b"
      [] OTHER -> c

\* str.lower()
Lower(s) == [i \in 1..Len(s) |-> LowerChar(s[i])]

\* w in s
IsSubstr(w, s) == \E i \in 0..(Len(s) - Len(w)) : SubSeq(s, i + 1, i + Len(w)) = w

\* s.startswith(p)
StartsWith(s, p) == Len(p) <= Len(s) /\ SubSeq(s, 1, Len(p)) = p

\* str.strip()
Strip(s) ==
    LET N == {i \in 1..Len(s) : s[i] \notin Whitespace}
    IN  IF N = {} THEN <<>>
        ELSE SubSeq(s, Nth(N, 1), Nth(N, Cardinality(N)))

\* str.split(): the maximal runs of non-whitespace characters, in order.
Split(s) ==
    LET Starts == {i \in 1..Len(s) :
                     s[i] \notin Whitespace /\ (i = 1 \/ s[i - 1] \in Whitespace)}
        End(i) == CHOOSE j \in i..Len(s) :
                     /\ \A k \in i..j : s[k] \notin Whitespace
                     /\ (j = Len(s) \/ s[j + 1] \in Whitespace)
    IN  [n \in 1..Cardinality(Starts) |->
            SubSeq(s, Nth(Starts, n), End(Nth(Starts, n)))]

\* str.split(c) for a one-character separator c.
SplitOn(s, c) ==
    LET P == {i \in 1..Len(s) : s[i] = c}
        n == Cardinality(P)
        First(k) == IF k = 1 THEN 1 ELSE Nth(P, k - 1) + 1
        Last(k) == IF k = n + 1 THEN Len(s) ELSE Nth(P, k) - 1
    IN  [k \in 1..(n + 1) |-> SubSeq(s, First(k), Last(k))]

RECURSIVE Join(_, _)
\* sep.join(parts)
Join(parts, sep) ==
    IF Len(parts) = 0 THEN <<>>
    ELSE IF Len(parts) = 1 THEN parts[1]
    ELSE parts[1] \o sep \o Join(Tail(parts), sep)

RECURSIVE Flatten(_)
Flatten(ss) == IF Len(ss) = 0 THEN <<>> ELSE ss[1] \o Flatten(Tail(ss))

\* All sequences over S of length at most n.
SeqUpTo(S, n) == UNION {[1..m -> S] : m \in 0..n}

(***************************************************************************)
(* chunk_text                                                              *)
(***************************************************************************)
\* The reset that forgets the word that opens the new chunk.
ChunkResetZero(word) == 0

\* The size current_size is reset to when a chunk is flushed.
ChunkResetSize(word) == Len(word)

RECURSIVE ChunkLoop(_, _, _, _, _, _)
\* The for loop over words, from words[i] on, then the final flush.
ChunkLoop(words, i, size, acc, current_chunk, current_size) ==
    IF i > Len(words)
    THEN IF current_chunk # <<>>
         THEN Append(acc, Join(current_chunk, <<" ">>))
         ELSE acc
    ELSE LET word == words[i]
             grown == current_size + Len(word) + 1
         IN  IF grown > size
             THEN ChunkLoop(words, i + 1, size,
                            Append(acc, Join(current_chunk, <<" ">>)),
                            <<word>>, ChunkResetSize(word))
             ELSE ChunkLoop(words, i + 1, size, acc,
                            Append(current_chunk, word), grown)

chunk_text(t, size) == ChunkLoop(Split(t), 1, size, <<>>, <<>>, 0)

(***************************************************************************)
(* find_citations                                                          *)
(***************************************************************************)
\* set(query.lower().split())
QueryWords(q) == Range(Split(Lower(q)))

\* sum(1 for word in query_words if word in s)
Matches(words, s) == Cardinality({w \in words : IsSubstr(w, s)})

\* sentences[:10]
Candidates(sentences) == Take(sentences, SentenceLimit)

\* The comparison with >= in place of >: a tie moves to the later sentence.
BetterOrEqual(sent_matches, max_matches) == sent_matches >= max_matches

\* sent_matches > max_matches
Better(sent_matches, max_matches) == sent_matches > max_matches

RECURSIVE BestLoop(_, _, _, _, _)
\* The loop over the candidate sentences, from sents[i] on.
BestLoop(words, sents, i, best_sentence, max_matches) ==
    IF i > Len(sents) THEN best_sentence
    ELSE LET sent_matches == Matches(words, Lower(sents[i]))
         IN  IF Better(sent_matches, max_matches)
             THEN BestLoop(words, sents, i + 1, Strip(sents[i]), sent_matches)
             ELSE BestLoop(words, sents, i + 1, best_sentence, max_matches)

BestSentence(words, t) == BestLoop(words, Candidates(SplitOn(t, ".")), 1, <<>>, 0)

\* best_sentence[:200] + "..." if len(best_sentence) > 200 else best_sentence
Snippet(best_sentence) ==
    IF Len(best_sentence) > SnippetLimit
    THEN Take(best_sentence, SnippetLimit) \o <<".", ".", ".">>
    ELSE best_sentence

\* The citations of one page: none or one.  The keys of a stored page map are
\* str(i + 1), so int(page_num) is the page's number.
PageCitations(words, page_num, t) ==
    LET matches == Matches(words, Lower(t))
        best_sentence == BestSentence(words, t)
    IN  IF matches > 0 /\ best_sentence # <<>>
        THEN <<[page |-> page_num, snippet |-> Snippet(best_sentence),
                relevance |-> matches]>>
        ELSE <<>>

RECURSIVE InsertDesc(_, _)
\* c placed after every element of the sorted list whose relevance is >= its own.
InsertDesc(sorted, c) ==
    IF Len(sorted) = 0 THEN <<c>>
    ELSE IF sorted[1].relevance >= c.relevance
         THEN <<sorted[1]>> \o InsertDesc(Tail(sorted), c)
         ELSE <<c>> \o sorted

\* The list left in page order: the sort call left out.
Unsorted(cs, sorted) == cs

RECURSIVE SortByRelevance(_, _)
\* citations.sort(key=relevance, reverse=True): stable, equal keys keep their order.
SortByRelevance(cs, sorted) ==
    IF Len(cs) = 0 THEN sorted
    ELSE SortByRelevance(Tail(cs), InsertDesc(sorted, cs[1]))

\* citations[:top_k]
TopK(sorted, k) == SliceTo(sorted, k)

find_citations(q, pages, k) ==
    LET words == QueryWords(q)
        found == Flatten([p \in 1..Len(pages) |-> PageCitations(words, p, pages[p])])
    IN  TopK(SortByRelevance(found, <<>>), k)

(***************************************************************************)
(* Inputs of find_citations.  A page text is a run of pieces; the long     *)
(* pieces bring a sentence past the snippet limit and a match past the     *)
(* tenth sentence.                                                         *)
(***************************************************************************)
Pad == [i \in 1..(SnippetLimit - 1) |-> "x"]

\* Nine periods: what follows is the tenth sentence.
DotsNine == [i \in 1..(SentenceLimit - 1) |-> "."]

\* Ten periods: what follows is the eleventh sentence.
DotsTen == [i \in 1..SentenceLimit |-> "."]

Pieces == {<<"a">>, <<"B">>, <<" ">>, <<".">>, Pad, DotsNine, DotsTen}

PieceTexts == {Flatten(ps) : ps \in SeqUpTo(Pieces, MaxPieces)}

\* "The cat sat on the mat. Dogs bark loudly."
CatMatText ==
    <<"T", "h", "e", " ", "c", "a", "t", " ", "s", "a", "t", " ", "o", "n", " ",
      "t", "h", "e", " ", "m", "a", "t", ".", " ", "D", "o", "g", "s", " ",
      "b", "a", "r", "k", " ", "l", "o", "u", "d", "l", "y", ".">>

CatMatQuery == <<"c", "a", "t", " ", "m", "a", "t">>

CatMatSnippet == Take(CatMatText, 22)

RankTexts == {<<"a">>, <<"B">>, <<"a", " ", "b">>, <<"x">>, <<"b", ".", "a">>}

Queries == {<<"a", " ", "b">>, <<"B">>, <<"a", " ", " ", "A">>, <<"a", ".", "b">>}

CiteInit ==
    /\ citations = <<>>
    /\ \/ /\ query \in Queries
          /\ pages_text \in SeqUpTo(RankTexts, MaxPages)
          /\ top_k \in (-1)..MaxK
       \/ /\ query \in Queries
          /\ pages_text \in {<<t>> : t \in PieceTexts}
          /\ top_k = 3
       \/ /\ query = CatMatQuery
          /\ pages_text = <<CatMatText>>
          /\ top_k = 3

CiteIdle == query = <<>> /\ pages_text = <<>> /\ top_k = 0 /\ citations = <<>>

FindCitations ==
    /\ pc = "call"
    /\ pc' = "done"
    /\ citations' = find_citations(query, pages_text, top_k)
    /\ UNCHANGED <<query, pages_text, top_k, chunkVars, serverVars, studyVars>>

(***************************************************************************)
(* Inputs of chunk_text.                                                   *)
(***************************************************************************)
ChunkChars == {"a", "b", " "}

ChunkInit ==
    /\ chunks = <<>>
    /\ text \in SeqUpTo(ChunkChars, MaxTextLen)
    /\ chunk_size \in 1..MaxChunkSize

ChunkIdle == text = <<>> /\ chunk_size = 0 /\ chunks = <<>>

ChunkText ==
    /\ pc = "call"
    /\ pc' = "done"
    /\ chunks' = chunk_text(text, chunk_size)
    /\ UNCHANGED <<text, chunk_size, citeVars, serverVars, studyVars>>

(***************************************************************************)
(* Model output.  The text a completion returns is a sequence of lexical   *)
(* tokens: "FENCE" (three backticks), "\n", " ", the JSON punctuation      *)
(* "[", "]", ",",                                                          *)
(* words of prose, JSON scalars, and JSON objects.  An object without a    *)
(* bracket inside is one token; an MCQ object with an options list is      *)
(* "{" (the text up to "options":), the list, and "}" (the rest).          *)
(***************************************************************************)
Fence == <<"FENCE">>

\* A raw field of a JSON object: its kind and, for a string, its value.
Missing == [k |-> "missing", v |-> "", items |-> <<>>]

Null == [k |-> "null", v |-> "", items |-> <<>>]

Number == [k |-> "int", v |-> "", items |-> <<>>]

Str(v) == [k |-> "str", v |-> v, items |-> <<>>]

StrList(items) == [k |-> "list", v |-> "", items |-> items]

BadList == [k |-> "badlist", v |-> "", items |-> <<>>]

Obj(q, o, a, e, ty) ==
    [question |-> q, options |-> o, correct_answer |-> a, explanation |-> e,
     question_type |-> ty]

\* The object tokens and the fields of the object each one writes.
ObjectTokens == {"qSAQ", "qTemplate", "qNoExpl", "qIntAns", "qEssay", "qNoOpts",
                 "vIntro", "vAdvanced", "vPractical"}

ObjectFields(tok) ==
    CASE tok = "qSAQ" -> Obj(Str("Q"), Null, Str("A"), Str("E"), Str("SAQ"))
      [] tok = "qTemplate" ->
            Obj(Str("What is the fundamental principle discussed in the material?"),
                Null,
                Str("Please refer to the study material for the correct answer"),
                Str("This is a template question."), Str("SAQ"))
      [] tok = "qNoExpl" -> Obj(Str("Q2"), Null, Str("A2"), Missing, Str("SAQ"))
      [] tok = "qIntAns" -> Obj(Str("Q3"), Null, Number, Str("E3"), Str("SAQ"))
      [] tok = "qEssay" -> Obj(Str("Q4"), Null, Str("A4"), Str("E4"), Str("ESSAY"))
      [] tok = "qNoOpts" -> Obj(Str("Q5"), Missing, Str("A5"), Str("E5"), Str("LAQ"))
      [] OTHER -> Obj(Missing, Missing, Missing, Missing, Missing)

ScalarTokens == {"5", "null", "str"}

\* A parsed JSON value: a list, an object, or a scalar.
JList(items) == [t |-> "list", name |-> "", items |-> items]

JObject(tok, items) == [t |-> "obj", name |-> tok, items |-> items]

JScalar(tok) ==
    [t |-> (CASE tok = "5" -> "num" [] tok = "null" -> "null" [] OTHER -> "str"),
     name |-> tok, items |-> <<>>]

ParseFail == [ok |-> FALSE, val |-> JScalar("null"), next |-> 0]

ParseOk(val, next) == [ok |-> TRUE, val |-> val, next |-> next]

RECURSIVE SkipWs(_, _)
\* The first index from i on that holds no JSON whitespace.
SkipWs(ts, i) ==
    IF i <= Len(ts) /\ ts[i] \in Whitespace THEN SkipWs(ts, i + 1) ELSE i

RECURSIVE ParseValue(_, _)
RECURSIVE ParseItems(_, _, _)
\* The JSON value that starts at ts[i], after whitespace.
ParseValue(ts, i0) ==
    LET i == SkipWs(ts, i0)
    IN  IF i > Len(ts) THEN ParseFail
        ELSE IF ts[i] = "["
        THEN LET j == SkipWs(ts, i + 1)
             IN  IF j <= Len(ts) /\ ts[j] = "]"
                 THEN ParseOk(JList(<<>>), j + 1)
                 ELSE ParseItems(ts, i + 1, <<>>)
        ELSE IF ts[i] = "{"
        THEN LET r == ParseValue(ts, i + 1)
                 j == SkipWs(ts, r.next)
             IN  IF r.ok /\ j <= Len(ts) /\ ts[j] = "}"
                 THEN ParseOk(JObject("{", <<r.val>>), j + 1)
                 ELSE ParseFail
        ELSE IF ts[i] \in ObjectTokens THEN ParseOk(JObject(ts[i], <<>>), i + 1)
        ELSE IF ts[i] \in ScalarTokens THEN ParseOk(JScalar(ts[i]), i + 1)
        ELSE ParseFail

\* The rest of a list after "[" or ",": a value, then "," or "]".
ParseItems(ts, i, acc) ==
    LET r == ParseValue(ts, i)
        j == SkipWs(ts, r.next)
    IN  IF ~r.ok \/ j > Len(ts) THEN ParseFail
        ELSE IF ts[j] = "," THEN ParseItems(ts, j + 1, Append(acc, r.val))
        ELSE IF ts[j] = "]" THEN ParseOk(JList(Append(acc, r.val)), j + 1)
        ELSE ParseFail

\* json.loads: one value and nothing but whitespace after it, or an error.
json_loads(ts) ==
    LET r == ParseValue(ts, 1)
    IN  IF r.ok /\ SkipWs(ts, r.next) > Len(ts) THEN r ELSE ParseFail

\* not line.startswith(FENCE)
NotFenceLine(line) == ~StartsWith(line, Fence)

\* Lines 639-642 and 1032-1035: remove markdown code blocks if present.
RemoveFences(response) ==
    IF StartsWith(response, Fence)
    THEN Strip(Join(SelectSeq(SplitOn(response, "\n"), NotFenceLine), <<"\n">>))
    ELSE response

\* Lines 645-649 and 1037-1041: find the JSON array.
FindArray(response) ==
    IF ~StartsWith(response, <<"[">>)
    THEN LET opens == {i \in 1..Len(response) : response[i] = "["}
             closes == {i \in 1..Len(response) : response[i] = "]"}
         IN  IF opens # {} /\ closes # {}
                /\ Nth(closes, Cardinality(closes)) > Nth(opens, 1)
             THEN SubSeq(response, Nth(opens, 1), Nth(closes, Cardinality(closes)))
             ELSE response
    ELSE response

\* The text handed to json.loads.
Clean(response) == FindArray(RemoveFences(Strip(response)))

(***************************************************************************)
(* QuizQuestion (pydantic v2: model_dump is used at line 694).             *)
(***************************************************************************)
NoOptions == [present |-> FALSE, items |-> <<>>]

\* The raw fields of a parsed object.
RawFields(v) ==
    IF v.name = "{"
    THEN LET o == v.items[1]
         IN  Obj(Str("QM"),
                 IF o.t = "null" THEN Null
                 ELSE IF o.t = "list" /\ \A i \in 1..Len(o.items) : o.items[i].t = "str"
                 THEN StrList([i \in 1..Len(o.items) |-> o.items[i].name])
                 ELSE BadList,
                 Str("AM"), Str("EM"), Str("MCQ"))
    ELSE ObjectFields(v.name)

\* QuizQuestion(**q) succeeds: q is a mapping, the four str fields are
\* strings, and options is absent, null or a list of strings.
SchemaValid(v) ==
    /\ v.t = "obj"
    /\ LET f == RawFields(v)
       IN  /\ f.question.k = "str"
           /\ f.correct_answer.k = "str"
           /\ f.explanation.k = "str"
           /\ f.question_type.k = "str"
           /\ f.options.k \in {"missing", "null", "list"}

\* The validated model (and q.model_dump()).
QuizQuestion(v) ==
    LET f == RawFields(v)
    IN  [question |-> f.question.v,
         options |-> IF f.options.k = "list"
                     THEN [present |-> TRUE, items |-> f.options.items]
                     ELSE NoOptions,
         correct_answer |-> f.correct_answer.v,
         explanation |-> f.explanation.v,
         question_type |-> f.question_type.v]

\* Lines 669-677: the fallback question of a failed parse.
ParseFallbackQuestion ==
    [question |-> "What is the main topic discussed in the material?",
     options |-> NoOptions,
     correct_answer |-> "Please refer to the study material",
     explanation |-> "This is a template question. Configure AI service for personalized questions.",
     question_type |-> "SAQ"]

\* Lines 680-688: the question of an empty validated list.
EmptyFallbackQuestion ==
    [question |-> "What are the key concepts covered?",
     options |-> NoOptions,
     correct_answer |-> "Refer to course material",
     explanation |-> "Template question - AI service needed for custom questions",
     question_type |-> "SAQ"]

(***************************************************************************)
(* get_fallback_response and call_llm.  A prompt is known by the dispatch  *)
(* words its lowercase text contains; the topic spliced into the video     *)
(* titles is not modelled.                                                 *)
(***************************************************************************)
DispatchWords == {"question", "explain", "what", "generate", "quiz", "youtube", "video"}

Prompt(words) == [kw |-> words]

\* Lines 317-330: the conversational text, several lines, no bracket.
FallbackChat == <<"fbChat", "\n", "\n", "fbChat", "\n", "fbChat">>

\* Lines 334-342: json.dumps of one templated SAQ.
FallbackQuiz == <<"[", "qTemplate", "]">>

\* Lines 350-366: json.dumps of three templated video entries.
FallbackVideos == <<"[", "vIntro", ",", " ", "vAdvanced", ",", " ", "vPractical", "]">>

\* Line 369.
FallbackDefault == <<"fbDefault">>

get_fallback_response(prompt, system_prompt) ==
    IF "question" \in prompt.kw \/ "explain" \in prompt.kw \/ "what" \in prompt.kw
    THEN FallbackChat
    ELSE IF "generate" \in prompt.kw /\ "quiz" \in prompt.kw
    THEN FallbackQuiz
    ELSE IF "youtube" \in prompt.kw \/ "video" \in prompt.kw
    THEN FallbackVideos
    ELSE FallbackDefault

\* What a call of call_llm did.
LlmReturned(t) ==
    [called |-> TRUE, raised |-> FALSE, status |-> 0, detail |-> "", text |-> t]

LlmRaised(status, detail) ==
    [called |-> TRUE, raised |-> TRUE, status |-> status, detail |-> detail, text |-> <<>>]

NoCall == [called |-> FALSE, raised |-> FALSE, status |-> 0, detail |-> "", text |-> <<>>]

\* What the completion API does: a timeout, a transport error, or a response.
UpTimeout == [kind |-> "timeout", status |-> 0, body |-> "", text |-> <<>>]

UpNetError == [kind |-> "neterror", status |-> 0, body |-> "", text |-> <<>>]

UpResponse(status, body, t) == [kind |-> "response", status |-> status, body |-> body, text |-> t]

NoUpstream == [kind |-> "unused", status |-> 0, body |-> "", text |-> <<>>]

\* not OPENROUTER_API_KEY or OPENROUTER_API_KEY == "your_key_here"
NotConfigured(key) == key = "" \/ key = "your_key_here"

\* The mutant of FallbackOrRaise: the failure raised although fallback is enabled.
AlwaysRaise(use_fallback, prompt, system_prompt, detail) == LlmRaised(503, detail)

\* if use_fallback: return get_fallback_response(...); raise HTTPException(503)
FallbackOrRaise(use_fallback, prompt, system_prompt, detail) ==
    IF use_fallback
    THEN LlmReturned(get_fallback_response(prompt, system_prompt))
    ELSE LlmRaised(503, detail)

\* Lines 301-310: except Exception.
ExceptException(use_fallback, prompt, system_prompt) ==
    FallbackOrRaise(use_fallback, prompt, system_prompt, "AI service unavailable")

\* Lines 293-300: except httpx.TimeoutException.
ExceptTimeout(use_fallback, prompt, system_prompt) ==
    FallbackOrRaise(use_fallback, prompt, system_prompt, "AI service timeout. Please try again.")

\* Lines 284-292: except httpx.HTTPStatusError.
ExceptHTTPStatusError(use_fallback, prompt, system_prompt) ==
    FallbackOrRaise(use_fallback, prompt, system_prompt, "AI service error")

\* Lines 260-262, 266-268, 280-282: inside the try block.  The HTTPException
\* raised there is an Exception and is caught at line 301.
FallbackOrRaiseInTry(use_fallback, prompt, system_prompt) ==
    IF use_fallback
    THEN LlmReturned(get_fallback_response(prompt, system_prompt))
    ELSE ExceptException(use_fallback, prompt, system_prompt)

\* response.raise_for_status() raises for every status outside 200..299.
IsSuccess(status) == status >= 200 /\ status <= 299

call_llm(key, prompt, system_prompt, use_fallback, up) ==
    IF NotConfigured(key)
    THEN FallbackOrRaise(use_fallback, prompt, system_prompt, "AI service not configured")
    ELSE IF up.kind = "timeout"
    THEN ExceptTimeout(use_fallback, prompt, system_prompt)
    ELSE IF up.kind # "response"
    THEN ExceptException(use_fallback, prompt, system_prompt)
    ELSE IF up.status = 401 \/ up.status = 429
    THEN FallbackOrRaiseInTry(use_fallback, prompt, system_prompt)
    ELSE IF ~IsSuccess(up.status)
    THEN ExceptHTTPStatusError(use_fallback, prompt, system_prompt)
    ELSE IF up.body = "content"
    THEN LlmReturned(up.text)
    ELSE IF up.body \in {"nochoices", "emptychoices"}
    THEN FallbackOrRaiseInTry(use_fallback, prompt, system_prompt)
    ELSE \* the body is not JSON, or choices[0] has no message content string
         ExceptException(use_fallback, prompt, system_prompt)

(***************************************************************************)
(* The store and the handlers generate_quiz and recommend_youtube.         *)
(***************************************************************************)
\* The documents in the store: p1 has text, p2 is image-based.  "words" are
\* the dispatch words the document's text contains, pages_text the page map
\* in key order, file_path the name of the file in UPLOAD_DIR.
StoredPdfs ==
    [id \in {"p1", "p2"} |->
        [is_image_based |-> (id = "p2"),
         words |-> IF id = "p1" THEN {"video"} ELSE {},
         pages_text |-> IF id = "p1" THEN <<<<"a", " ", "c">>, <<"b">>>>
                        ELSE <<<<"[", "I", "]">>>>,
         file_path |-> id]]

\* The files of the stored documents.
StoredFiles == {StoredPdfs[id].file_path : id \in DOMAIN StoredPdfs}

\* ObjectId(s) raises InvalidId unless s is a 24-character hex string.
WellFormedId(id) == id # "bad!"

PdfIds == {"", "p1", "p2", "p404", "bad!"}

QuizReply(status, detail, quiz_id, questions) ==
    [status |-> status, detail |-> detail, quiz_id |-> quiz_id, questions |-> questions]

NoReply == [status |-> 0]

\* The dispatch words of the quiz prompt (lines 602-629): "generate quiz
\* questions", "What is X?", "Explain Y", and those of the context.
QuizPrompt(context_words) ==
    Prompt({"generate", "quiz", "question", "what", "explain"} \cup context_words)

RECURSIVE StopAtInvalid(_, _, _)
\* The mutant of ValidateLoop: the first invalid element ends the loop and
\* discards what was validated.
StopAtInvalid(questions_data, i, validated_questions) ==
    IF i > Len(questions_data) THEN validated_questions
    ELSE IF SchemaValid(questions_data[i])
    THEN StopAtInvalid(questions_data, i + 1,
                       Append(validated_questions, QuizQuestion(questions_data[i])))
    ELSE <<>>

RECURSIVE ValidateLoop(_, _, _)
\* Lines 654-660: an invalid element is skipped, the loop goes on.
ValidateLoop(questions_data, i, validated_questions) ==
    IF i > Len(questions_data) THEN validated_questions
    ELSE IF SchemaValid(questions_data[i])
    THEN ValidateLoop(questions_data, i + 1,
                      Append(validated_questions, QuizQuestion(questions_data[i])))
    ELSE ValidateLoop(questions_data, i + 1, validated_questions)

\* Lines 635-677.  A number or null is not iterable (the outer except); the
\* keys of an object and the characters of a string are no mappings, so
\* each is skipped.
ParseQuestions(response) ==
    LET r == json_loads(Clean(response))
    IN  IF ~r.ok THEN <<ParseFallbackQuestion>>
        ELSE IF r.val.t \in {"num", "null"} THEN <<ParseFallbackQuestion>>
        ELSE IF r.val.t = "list" THEN ValidateLoop(r.val.items, 1, <<>>)
        ELSE <<>>

\* The mutant of OrPlaceholder: the empty list is kept.
KeepEmpty(questions) == questions

\* Lines 679-688: if not questions.
OrPlaceholder(questions) ==
    IF questions = <<>> THEN <<EmptyFallbackQuestion>> ELSE questions

\* generate_quiz, from the call of call_llm on (lines 633-704).
QuizAfterLookup(context_words) ==
    LET out == call_llm(api_key, QuizPrompt(context_words), "quiz generator",
                        TRUE, upstream)
        questions == OrPlaceholder(ParseQuestions(out.text))
        quiz_id == Len(quizzes) + 1
    IN  /\ llm_out' = out
        /\ IF out.raised
           THEN /\ reply' = QuizReply(out.status, out.detail, 0, <<>>)
                /\ UNCHANGED quizzes
           ELSE IF ~db_connected
           THEN /\ reply' = QuizReply(500, "Database not connected", 0, <<>>)
                /\ UNCHANGED quizzes
           ELSE /\ quizzes' = Append(quizzes, [_id |-> quiz_id,
                                               pdf_id |-> request.pdf_id,
                                               questions |-> questions])
                /\ reply' = QuizReply(200, "", quiz_id, questions)

\* generate_quiz (lines 585-711).
GenerateQuiz ==
    /\ pc = "call"
    /\ pc' = "done"
    /\ IF request.pdf_id # ""
       THEN IF ~db_connected
            THEN /\ reply' = QuizReply(500, "Database not connected", 0, <<>>)
                 /\ UNCHANGED <<quizzes, llm_out>>
            ELSE IF ~WellFormedId(request.pdf_id)
            THEN /\ reply' = QuizReply(500, "Quiz generation failed", 0, <<>>)
                 /\ UNCHANGED <<quizzes, llm_out>>
            ELSE IF request.pdf_id \notin DOMAIN pdfs
            THEN /\ reply' = QuizReply(404, "PDF not found", 0, <<>>)
                 /\ UNCHANGED <<quizzes, llm_out>>
            ELSE IF pdfs[request.pdf_id].is_image_based
            THEN /\ reply' = QuizReply(422, "Cannot generate quiz from image-based PDF.", 0, <<>>)
                 /\ UNCHANGED <<quizzes, llm_out>>
            ELSE QuizAfterLookup(pdfs[request.pdf_id].words)
       ELSE QuizAfterLookup({})
    /\ UNCHANGED <<api_key, db_connected, pdfs, request, upstream, citeVars, chunkVars,
                   studyVars>>

RecReply(status, detail, topic, recommendations) ==
    [status |-> status, detail |-> detail, topic |-> topic,
     recommendations |-> recommendations]

\* The dispatch words a topic contains.
TopicWords(topic) == IF topic = "what is dna" THEN {"what"} ELSE {}

Topics == {"algebra", "what is dna"}

\* The dispatch words of the recommendation prompt (lines 1005-1023):
\* "YouTube videos", "Clear explanations", the topic and the context.
RecPrompt(topic, context_words) ==
    Prompt({"youtube", "video", "explain"} \cup TopicWords(topic) \cup context_words)

\* Lines 1058-1074: the fallback recommendations, built from the topic.
FallbackRecommendations(topic) ==
    <<JObject("Introduction to {topic} / Khan Academy", <<JScalar(topic)>>),
      JObject("{topic} - Complete Guide / Crash Course", <<JScalar(topic)>>),
      JObject("Understanding {topic} / 3Blue1Brown", <<JScalar(topic)>>)>>

\* The mutant of ParseRecommendations: the check for an empty list left out.
ParseRecommendationsNoEmptyCheck(response, topic) ==
    LET r == json_loads(Clean(response))
    IN  IF r.ok /\ r.val.t = "list" THEN r.val.items
        ELSE FallbackRecommendations(topic)

\* Lines 1029-1074.
ParseRecommendations(response, topic) ==
    LET r == json_loads(Clean(response))
    IN  IF r.ok /\ r.val.t = "list" /\ Len(r.val.items) # 0 THEN r.val.items
        ELSE FallbackRecommendations(topic)

\* recommend_youtube, from the call of call_llm on (lines 1027-1079).
RecAfterLookup(context_words) ==
    LET out == call_llm(api_key, RecPrompt(request.topic, context_words),
                        "content curator", TRUE, upstream)
    IN  /\ llm_out' = out
        /\ reply' = IF out.raised
                    THEN RecReply(500, out.detail, request.topic, <<>>)
                    ELSE RecReply(200, "", request.topic,
                                  ParseRecommendations(out.text, request.topic))

\* recommend_youtube (lines 994-1085).
RecommendYoutube ==
    /\ pc = "call"
    /\ pc' = "done"
    /\ IF request.pdf_id # ""
       THEN IF ~db_connected
            THEN /\ reply' = RecReply(500, "500: Database not connected", request.topic, <<>>)
                 /\ UNCHANGED llm_out
            ELSE IF ~WellFormedId(request.pdf_id)
            THEN /\ reply' = RecReply(500, "InvalidId", request.topic, <<>>)
                 /\ UNCHANGED llm_out
            ELSE IF request.pdf_id \in DOMAIN pdfs
            THEN RecAfterLookup(pdfs[request.pdf_id].words)
            ELSE RecAfterLookup({})
       ELSE RecAfterLookup({})
    /\ UNCHANGED <<api_key, db_connected, pdfs, quizzes, request, upstream,
                   citeVars, chunkVars, studyVars>>

\* call_llm called on its own (lines 218-310).
CallLlm ==
    /\ pc = "call"
    /\ pc' = "done"
    /\ llm_out' = call_llm(api_key, request.prompt, request.system_prompt,
                           request.use_fallback, upstream)
    /\ UNCHANGED <<api_key, db_connected, pdfs, quizzes, request, upstream, reply,
                   citeVars, chunkVars, studyVars>>

(***************************************************************************)
(* Inputs of the handlers: the texts a completion may return.  An array of *)
(* elements is written whole, cut before its closing bracket, or without   *)
(* its brackets, and then wrapped.                                         *)
(***************************************************************************)
McqObject == <<"{", "[", "str", ",", " ", "str", "]", "}">>

Elements == {<<"qSAQ">>, <<"qNoExpl">>, <<"qEssay">>, McqObject, <<"5">>}

Render(es) == <<"[">> \o Join(es, <<",", " ">>) \o <<"]">>

ArrayTexts ==
    UNION {{Render(es), SubSeq(Render(es), 1, Len(Render(es)) - 1), Join(es, <<",", " ">>)} :
              es \in SeqUpTo(Elements, MaxElements)}

Wrappings(b) ==
    {b,
     <<"FENCE", "json", "\n">> \o b \o <<"\n", "FENCE">>,
     <<"w", " ">> \o b,
     b \o <<" ", "w">>,
     <<" ", "\n">> \o b \o <<"\n">>,
     <<"w", "\n", "FENCE", "\n">> \o b \o <<"\n", "FENCE">>}

OutputTexts == UNION {Wrappings(b) : b \in ArrayTexts}

HandlerUpstreams ==
    {UpTimeout, UpResponse(401, "notjson", <<>>), UpResponse(200, "nochoices", <<>>)}
        \cup {UpResponse(200, "content", t) : t \in OutputTexts}

ApiKeyInit ==
    \/ api_key = "sk-live" /\ upstream \in HandlerUpstreams
    \/ api_key \in {"", "your_key_here"} /\ upstream = NoUpstream

QuizInit ==
    /\ db_connected \in BOOLEAN
    /\ pdfs = StoredPdfs
    /\ quizzes = <<>>
    /\ request \in {[pdf_id |-> id] : id \in PdfIds}
    /\ ApiKeyInit
    /\ llm_out = NoCall
    /\ reply = NoReply

RecInit ==
    /\ db_connected \in BOOLEAN
    /\ pdfs = StoredPdfs
    /\ quizzes = <<>>
    /\ request \in {[topic |-> t, pdf_id |-> id] : t \in Topics, id \in PdfIds}
    /\ ApiKeyInit
    /\ llm_out = NoCall
    /\ reply = NoReply

Statuses == {200, 201, 301, 400, 401, 429, 500}

Bodies == {"notjson", "nochoices", "emptychoices", "badchoice", "content"}

LlmUpstreams ==
    {UpTimeout, UpNetError}
        \cup {UpResponse(st, b, IF b = "content" THEN FallbackDefault \o <<"w">> ELSE <<>>) :
                 st \in Statuses, b \in Bodies}

LlmInit ==
    /\ db_connected = TRUE
    /\ pdfs = StoredPdfs
    /\ quizzes = <<>>
    /\ request \in {[prompt |-> Prompt(ws), system_prompt |-> "You are a helpful AI assistant.",
                     use_fallback |-> f] : ws \in SUBSET DispatchWords, f \in BOOLEAN}
    /\ \/ api_key = "sk-live" /\ upstream \in LlmUpstreams
       \/ api_key \in {"", "your_key_here"} /\ upstream = NoUpstream
    /\ llm_out = NoCall
    /\ reply = NoReply

ServerIdle ==
    /\ api_key = ""
    /\ db_connected = TRUE
    /\ pdfs = StoredPdfs
    /\ quizzes = <<>>
    /\ request = [pdf_id |-> ""]
    /\ upstream = NoUpstream
    /\ llm_out = NoCall
    /\ reply = NoReply

(***************************************************************************)
(* submit_quiz and get_progress.  In these two handlers the answer texts   *)
(* are sequences of characters; score_percentage, a float in the program,  *)
(* is the exact ratio num/den.                                             *)
(***************************************************************************)
MaxAnswers == 2

MaxSubmissions == 3

\* to_list(100)
ListLimit == 100

\* attempts[:10]
RecentLimit == 10

Ratio(n, d) == [num |-> n, den |-> d]

\* The quiz ids of requests: three stored quizzes, an unknown id, and (-1)
\* a string that ObjectId rejects.
MalformedQuizId == 0 - 1

QuizIds == {1, 2, 3, 4, MalformedQuizId}

StoredQuestion(q, a) ==
    [question |-> q, options |-> NoOptions, correct_answer |-> a,
     explanation |-> "E", question_type |-> "SAQ"]

\* The quizzes in the store: one question, two questions, and a quiz
\* document without questions.
StoredQuizzes ==
    <<[_id |-> 1, pdf_id |-> "", questions |-> <<StoredQuestion("Q1", <<" ", "A">>)>>],
      [_id |-> 2, pdf_id |-> "p1",
       questions |-> <<StoredQuestion("Q1", <<"a">>), StoredQuestion("Q2", <<"B", "a">>)>>],
      [_id |-> 3, pdf_id |-> "", questions |-> <<>>]>>

\* find_one({"_id": ...}) on a collection kept as a list: the document or none.
FindOne(collection, id) ==
    LET hits == {i \in 1..Len(collection) : collection[i]._id = id}
    IN  IF hits = {} THEN <<>> ELSE <<collection[Nth(hits, 1)]>>

\* The mutant of Put: a key already in the map keeps its value.
PutIfAbsent(map, k, v) ==
    [x \in (DOMAIN map) \cup {k} |-> IF x \in DOMAIN map THEN map[x] ELSE v]

\* map[k] = v
Put(map, k, v) == [x \in (DOMAIN map) \cup {k} |-> IF x = k THEN v ELSE map[x]]

RECURSIVE AnswerMapLoop(_, _, _)
\* Line 725: {ans.question_index: ans.user_answer for ans in request.answers}
AnswerMapLoop(answers, i, map) ==
    IF i > Len(answers) THEN map
    ELSE AnswerMapLoop(answers, i + 1,
                       Put(map, answers[i].question_index, answers[i].user_answer))

\* answer_map.get(idx, "")
GetAnswer(answer_map, idx) == IF idx \in DOMAIN answer_map THEN answer_map[idx] ELSE <<>>

\* Line 731.
IsCorrect(user_answer, correct_answer) ==
    Lower(Strip(user_answer)) = Lower(Strip(correct_answer))

RECURSIVE GradeLoop(_, _, _, _, _)
\* Lines 727-743: the loop over enumerate(questions), from index idx on.
GradeLoop(questions, answer_map, idx, results, correct_count) ==
    IF idx >= Len(questions)
    THEN [results |-> results, correct_count |-> correct_count]
    ELSE LET question == questions[idx + 1]
             user_answer == GetAnswer(answer_map, idx)
             correct_answer == question.correct_answer
             is_correct == IsCorrect(user_answer, correct_answer)
         IN  GradeLoop(questions, answer_map, idx + 1,
                       Append(results,
                              [question_index |-> idx,
                               question |-> question.question,
                               user_answer |-> user_answer,
                               correct_answer |-> correct_answer,
                               is_correct |-> is_correct,
                               explanation |-> question.explanation]),
                       IF is_correct THEN correct_count + 1 ELSE correct_count)

\* Line 745.
ScorePercentage(correct_count, questions) ==
    IF questions # <<>> THEN Ratio(correct_count * 100, Len(questions)) ELSE Ratio(0, 1)

SubmitReply(status, detail, total, correct, score, results) ==
    [status |-> status, detail |-> detail, total_questions |-> total,
     correct_answers |-> correct, score_percentage |-> score, results |-> results]

SubmitError(status, detail) == SubmitReply(status, detail, 0, 0, Ratio(0, 1), <<>>)

\* submit_quiz (lines 713-764).
SubmitQuiz ==
    /\ pc = "call"
    /\ pc' = "done"
    /\ IF ~db_connected
       THEN /\ reply' = SubmitError(500, "Database not connected")
            /\ UNCHANGED attempts
       ELSE IF request.quiz_id = MalformedQuizId
       THEN /\ reply' = SubmitError(500, "Internal Server Error")
            /\ UNCHANGED attempts
       ELSE IF FindOne(quizzes, request.quiz_id) = <<>>
       THEN /\ reply' = SubmitError(404, "Quiz not found")
            /\ UNCHANGED attempts
       ELSE LET quiz == FindOne(quizzes, request.quiz_id)[1]
                questions == quiz.questions
                graded == GradeLoop(questions, AnswerMapLoop(request.answers, 1, <<>>),
                                    0, <<>>, 0)
                score_percentage == ScorePercentage(graded.correct_count, questions)
            IN  /\ attempts' = Append(attempts,
                                      [quiz_id |-> request.quiz_id,
                                       total_questions |-> Len(questions),
                                       correct_answers |-> graded.correct_count,
                                       score_percentage |-> score_percentage,
                                       results |-> graded.results])
                /\ reply' = SubmitReply(200, "", Len(questions), graded.correct_count,
                                        score_percentage, graded.results)
    /\ UNCHANGED <<api_key, db_connected, pdfs, quizzes, request, upstream, llm_out,
                   chats, files, turns, served, citeVars, chunkVars>>

\* The answers of a request.
SubmittedTexts == {<<"a">>, <<"A", " ">>, <<"b", "a">>, <<>>}

SubmittedAnswers ==
    {[question_index |-> i, user_answer |-> t] : i \in 0..2, t \in SubmittedTexts}

SubmitInit ==
    /\ api_key = ""
    /\ db_connected \in BOOLEAN
    /\ pdfs = StoredPdfs
    /\ quizzes = StoredQuizzes
    /\ request \in {[quiz_id |-> id, answers |-> as] :
                       id \in QuizIds, as \in SeqUpTo(SubmittedAnswers, MaxAnswers)}
    /\ upstream = NoUpstream
    /\ llm_out = NoCall
    /\ reply = NoReply
    /\ attempts = <<>>
    /\ chats = <<>>
    /\ files = StoredFiles
    /\ turns = <<>>
    /\ served = 0

\* a + b and a / n on ratios.
RatAdd(a, b) == Ratio(a.num * b.den + b.num * a.den, a.den * b.den)

RatDiv(a, n) == Ratio(a.num, a.den * n)

\* a >= k for an integer k.
RatGeq(a, k) == a.num >= k * a.den

\* round(a, 1) for a >= 0, in tenths: the nearest tenth of the exact value,
\* the even one of two equally near.
RoundTenths(a) ==
    LET n == 10 * a.num
        q == n \div a.den
        twice == 2 * (n % a.den)
    IN  IF twice > a.den \/ (twice = a.den /\ q % 2 = 1) THEN q + 1 ELSE q

\* find({}).sort("submitted_at", -1).to_list(100): the latest attempts first.
LatestFirst(collection) ==
    Take([i \in 1..Len(collection) |-> collection[Len(collection) + 1 - i]], ListLimit)

RECURSIVE SumOf(_, _)
\* sum(a[field] for a in attempts) for the two integer fields.
SumOf(as, field) ==
    IF as = <<>> THEN 0 ELSE as[1][field] + SumOf(Tail(as), field)

RECURSIVE SumScores(_)
\* sum(a["score_percentage"] for a in attempts)
SumScores(as) ==
    IF as = <<>> THEN Ratio(0, 1) ELSE RatAdd(as[1].score_percentage, SumScores(Tail(as)))

HighScore(a) == RatGeq(a.score_percentage, 80)

LowScore(a) == ~RatGeq(a.score_percentage, 60)

ProgressReply(status, total_quizzes, answered, overall_tenths, recent, strengths, weaknesses) ==
    [status |-> status, total_quizzes |-> total_quizzes,
     total_questions_answered |-> answered, overall_score |-> Ratio(overall_tenths, 10),
     recent_attempts |-> recent, strengths |-> strengths, weaknesses |-> weaknesses]

\* get_progress (lines 931-989).  Nothing is being submitted: pc = "done".
GetProgress ==
    /\ pc = "done"
    /\ reply' =
          IF ~db_connected THEN ProgressReply(500, 0, 0, 0, <<>>, <<>>, <<>>)
          ELSE LET as == LatestFirst(attempts)
                   total_questions == SumOf(as, "total_questions")
                   total_score == SumScores(as)
                   avg_score == RatDiv(total_score, Len(as))
                   recent == Take(as, RecentLimit)
                   high_scores == SelectSeq(as, HighScore)
                   low_scores == SelectSeq(as, LowScore)
               IN  IF as = <<>> THEN ProgressReply(200, 0, 0, 0, <<>>, <<>>, <<>>)
                   ELSE ProgressReply(200, Len(as), total_questions, RoundTenths(avg_score),
                            [i \in 1..Len(recent) |->
                                [score |-> recent[i].score_percentage,
                                 questions |-> recent[i].total_questions]],
                            (IF high_scores # <<>> THEN <<"Consistently scoring well">>
                             ELSE <<>>)
                              \o (IF RatGeq(avg_score, 70)
                                  THEN <<"Strong overall performance">> ELSE <<>>),
                            IF low_scores # <<>> THEN <<"Some challenging areas">> ELSE <<>>)
    /\ UNCHANGED <<pc, api_key, db_connected, pdfs, quizzes, request, upstream, llm_out,
                   studyVars, citeVars, chunkVars>>

\* The submissions between two reads of the progress.
ProgressSubmissions ==
    {[quiz_id |-> id, answers |-> as] :
        id \in {1, 2, 3},
        as \in {<<>>,
                <<[question_index |-> 0, user_answer |-> <<"a">>]>>,
                <<[question_index |-> 0, user_answer |-> <<"a">>],
                  [question_index |-> 1, user_answer |-> <<"b", "a">>]>>}}

\* A client submits a quiz.
ReceiveSubmission ==
    /\ pc = "done"
    /\ served < MaxSubmissions
    /\ served' = served + 1
    /\ pc' = "call"
    /\ request' \in ProgressSubmissions
    /\ UNCHANGED <<api_key, db_connected, pdfs, quizzes, upstream, llm_out, reply,
                   attempts, chats, files, turns, citeVars, chunkVars>>

ProgressInit ==
    /\ api_key = ""
    /\ db_connected \in BOOLEAN
    /\ pdfs = StoredPdfs
    /\ quizzes = StoredQuizzes
    /\ request = [quiz_id |-> 1, answers |-> <<>>]
    /\ upstream = NoUpstream
    /\ llm_out = NoCall
    /\ reply = NoReply
    /\ attempts = <<>>
    /\ chats = <<>>
    /\ files = StoredFiles
    /\ turns = <<>>
    /\ served = 0

(***************************************************************************)
(* chat.  A request is served in four steps, one per await of the handler: *)
(* the lookup of the chat, the lookup of the document, the completion, and *)
(* the write of the chat.  Steps of different requests interleave.         *)
(***************************************************************************)
MaxTurns == 2

Clients == {"r1", "r2"}

\* The chat ids of requests: 0 for none, 1 the stored chat, 9 an unknown
\* id, -1 a string that ObjectId rejects; 10 and up are new ids.
NoChatId == 0

MalformedChatId == 0 - 1

ChatIds == {NoChatId, 1, 9, MalformedChatId}

\* str(ObjectId()) of the n-th request.
FreshChatId(n) == 10 + n

UserMessage(content) == [role |-> "user", content |-> content]

AssistantMessage(content, cits) ==
    [role |-> "assistant", content |-> content, citations |-> cits]

ChatDoc(id, pdf_id, messages, last_message) ==
    [_id |-> id, pdf_id |-> pdf_id, messages |-> messages, last_message |-> last_message]

\* The chats in the store: one chat of one earlier turn.
StoredChats ==
    [id \in {1} |->
        ChatDoc(1, "", <<UserMessage(<<"c">>), AssistantMessage(<<"w">>, <<>>)>>, <<"c">>)]

ChatReply(status, detail, chat_id, message, cits) ==
    [status |-> status, detail |-> detail, chat_id |-> chat_id, message |-> message,
     citations |-> cits]

ChatError(detail) == ChatReply(500, detail, NoChatId, <<>>, <<>>)

ChatRequests ==
    {[chat_id |-> id, message |-> msg, pdf_id |-> p] :
        id \in ChatIds, msg \in {<<"a">>, <<"B">>}, p \in {"", "p1", "p404"}}

\* The local variables of a request.
Turn(pcv, rq, chat_id, messages, cits, response_text, rep) ==
    [pc |-> pcv, request |-> rq, chat_id |-> chat_id, messages |-> messages,
     citations |-> cits, response_text |-> response_text, reply |-> rep]

IdleTurn ==
    Turn("idle", [chat_id |-> NoChatId, message |-> <<>>, pdf_id |-> ""], NoChatId,
         <<>>, <<>>, <<>>, NoReply)

\* Lines 866-870: except Exception, which also catches the HTTPException
\* of lines 76 and 779.
ChatFailed(t, rq, detail) == [t EXCEPT !.pc = "done", !.request = rq, !.reply = ChatError(detail)]

\* Lines 772-784: get or create the chat session.
ChatLookup(r) ==
    /\ turns[r].pc \in {"idle", "done"}
    /\ served < MaxTurns
    /\ served' = served + 1
    /\ \E rq \in ChatRequests :
          turns' = [turns EXCEPT ![r] =
              IF rq.chat_id # NoChatId
              THEN IF ~db_connected
                   THEN ChatFailed(IdleTurn, rq, "Chat failed: 500: Database not connected")
                   ELSE IF rq.chat_id = MalformedChatId
                   THEN ChatFailed(IdleTurn, rq, "Chat failed: InvalidId")
                   ELSE IF rq.chat_id \notin DOMAIN chats
                   THEN ChatFailed(IdleTurn, rq, "Chat failed: 404: Chat not found")
                   ELSE Turn("cite", rq, rq.chat_id, chats[rq.chat_id].messages,
                             <<>>, <<>>, NoReply)
              ELSE Turn("cite", rq, FreshChatId(served), <<>>, <<>>, <<>>, NoReply)]
    /\ UNCHANGED <<pc, attempts, chats, files, citeVars, chunkVars, serverVars>>

\* Lines 787-804: find citations if a document is given; every error of
\* the lookup is caught at line 803.
ChatCite(r) ==
    LET t == turns[r]
        found == /\ t.request.pdf_id # ""
                 /\ db_connected
                 /\ WellFormedId(t.request.pdf_id)
                 /\ t.request.pdf_id \in DOMAIN pdfs
    IN  /\ t.pc = "cite"
        /\ turns' = [turns EXCEPT ![r] =
              [t EXCEPT !.pc = "llm",
                        !.citations =
                            IF found
                            THEN find_citations(t.request.message,
                                                pdfs[t.request.pdf_id].pages_text, 3)
                            ELSE <<>>]]
        /\ UNCHANGED <<pc, attempts, chats, files, served, citeVars, chunkVars, serverVars>>

\* The dispatch words of the chat prompt (lines 807-820): both templates
\* hold "question".
ChatPrompt == Prompt({"question"})

\* Lines 822-827: the completion.
ChatCallLlm(r) ==
    LET t == turns[r]
        out == call_llm(api_key, ChatPrompt, "teacher", TRUE, upstream)
    IN  /\ t.pc = "llm"
        /\ turns' = [turns EXCEPT ![r] =
              IF out.raised
              THEN ChatFailed(t, t.request, "Chat failed: 503")
              ELSE [t EXCEPT !.pc = "save", !.response_text = out.text]]
        /\ UNCHANGED <<pc, attempts, chats, files, served, citeVars, chunkVars, serverVars>>

\* The mutant of TurnMessages: the pair replaces what was read.
OnlyThePair(messages, content, response_text, cits) ==
    <<UserMessage(content), AssistantMessage(response_text, cits)>>

\* Lines 830-841: messages.append(user), messages.append(assistant).
TurnMessages(messages, content, response_text, cits) ==
    Append(Append(messages, UserMessage(content)), AssistantMessage(response_text, cits))

\* The mutant of UpdateOne: the new pair is pushed onto the stored list.
UpdateOnePush(stored, chat_doc) ==
    [chat_doc EXCEPT !.messages =
        stored.messages \o SubSeq(chat_doc.messages, Len(chat_doc.messages) - 1,
                                  Len(chat_doc.messages))]

\* Lines 852-855: update_one with {"$set": chat_doc} replaces every field
\* of the stored chat by that of chat_doc, the message list included.
UpdateOne(stored, chat_doc) == chat_doc

\* Lines 829-864: save to the database and return.
ChatSave(r) ==
    LET t == turns[r]
        messages == TurnMessages(t.messages, t.request.message, t.response_text, t.citations)
        chat_doc == ChatDoc(t.chat_id, t.request.pdf_id, messages, t.request.message)
    IN  /\ t.pc = "save"
        /\ IF ~db_connected
           THEN /\ turns' = [turns EXCEPT ![r] =
                       ChatFailed(t, t.request, "Chat failed: 500: Database not connected")]
                /\ UNCHANGED chats
           ELSE /\ chats' = IF t.request.chat_id = NoChatId
                            THEN Put(chats, t.chat_id, chat_doc)
                            ELSE IF t.chat_id \in DOMAIN chats
                            THEN Put(chats, t.chat_id, UpdateOne(chats[t.chat_id], chat_doc))
                            ELSE chats
                /\ turns' = [turns EXCEPT ![r] =
                       [t EXCEPT !.pc = "done", !.messages = messages,
                                 !.reply = ChatReply(200, "", t.chat_id, t.response_text,
                                                     t.citations)]]
        /\ UNCHANGED <<pc, attempts, files, served, citeVars, chunkVars, serverVars>>

\* A request that starts while no other request is being served on its chat.
ChatLookupAlone(r) ==
    /\ ChatLookup(r)
    /\ \A o \in Clients \ {r} :
          turns[o].pc \in {"idle", "done"} \/ turns[o].chat_id # turns'[r].chat_id

\* The completion API answers, or times out; or no key is configured.
ChatInit ==
    /\ \/ api_key = "sk-live" /\ upstream \in {UpTimeout, UpResponse(200, "content", <<"w">>)}
       \/ api_key = "" /\ upstream = NoUpstream
    /\ db_connected \in BOOLEAN
    /\ pdfs = StoredPdfs
    /\ quizzes = <<>>
    /\ request = [pdf_id |-> ""]
    /\ llm_out = NoCall
    /\ reply = NoReply
    /\ attempts = <<>>
    /\ chats = StoredChats
    /\ files = StoredFiles
    /\ turns = [r \in Clients |-> IdleTurn]
    /\ served = 0

(***************************************************************************)
(* upload_pdf, extract_text_from_pdf and delete_pdf.  The three extraction *)
(* libraries are outside the program: an uploaded file is known by what    *)
(* each of them returns for it.                                            *)
(***************************************************************************)
MaxPdfRequests == 3

\* str(ObjectId()) of the n-th request.
FreshPdfIds == <<"u1", "u2", "u3", "u4", "u5", "u6">>

FreshPdfId(n) == FreshPdfIds[n + 1]

\* os.path.join(UPLOAD_DIR, pdf_id + ".pdf"): the file is named by the id.
PathOf(pdf_id) == pdf_id

\* "[Image-based page" and "[Image-based page - OCR needed]"
ImageMarker == <<"[", "I">>

ImagePage == <<"[", "I", "]">>

\* What the libraries do with a file: the page map of each strategy (empty
\* when it fails or finds no text), whether fitz opens it, and its pages.
Content(plumber, pymupdf, pypdf2, opens, total_pages) ==
    [plumber |-> plumber, pymupdf |-> pymupdf, pypdf2 |-> pypdf2, opens |-> opens,
     total_pages |-> total_pages]

Contents ==
    {Content(<<<<"a">>>>, <<<<"a">>>>, <<<<"a">>>>, TRUE, 1),   \* a text PDF
     Content(<<>>, <<<<"a">>, <<"b">>>>, <<>>, TRUE, 2),        \* only PyMuPDF reads it
     Content(<<>>, <<>>, <<<<"b">>>>, TRUE, 1),                 \* only PyPDF2 reads it
     Content(<<>>, <<>>, <<>>, TRUE, 2),                        \* scanned pages
     Content(<<>>, <<>>, <<>>, TRUE, 0),                        \* no page
     Content(<<>>, <<>>, <<>>, FALSE, 0)}                       \* unreadable or encrypted

Extracted(pages) == [raised |-> FALSE, pages_text |-> pages]

ExtractionFailed == [raised |-> TRUE, pages_text |-> <<>>]

\* extract_text_from_pdf (lines 160-195).
extract_text_from_pdf(content) ==
    IF content.plumber # <<>> THEN Extracted(content.plumber)
    ELSE IF content.pymupdf # <<>> THEN Extracted(content.pymupdf)
    ELSE IF content.pypdf2 # <<>> THEN Extracted(content.pypdf2)
    ELSE IF content.opens /\ content.total_pages > 0
    THEN Extracted([i \in 1..content.total_pages |-> ImagePage])
    ELSE ExtractionFailed

PdfReply(status, detail, pdf_id) == [status |-> status, detail |-> detail, pdf_id |-> pdf_id]

Uploads ==
    {[op |-> "upload", pdf_id |-> "", is_pdf_name |-> n, too_large |-> l, content |-> c] :
        n \in BOOLEAN, l \in BOOLEAN, c \in Contents}

\* upload_pdf (lines 460-522).
UploadPdf ==
    /\ served < MaxPdfRequests
    /\ served' = served + 1
    /\ \E rq \in Uploads :
          LET pdf_id == FreshPdfId(served)
              file_path == PathOf(pdf_id)
              extraction == extract_text_from_pdf(rq.content)
              pages == extraction.pages_text
              has_real_text == \E i \in 1..Len(pages) : ~IsSubstr(ImageMarker, pages[i])
          IN  /\ request' = rq
              /\ IF ~rq.is_pdf_name
                 THEN /\ reply' = PdfReply(400, "Only PDF files are allowed", "")
                      /\ UNCHANGED <<files, pdfs>>
                 ELSE IF rq.too_large
                 THEN /\ reply' = PdfReply(413, "File too large. Maximum size is 50MB", "")
                      /\ files' = files \ {file_path}
                      /\ UNCHANGED pdfs
                 ELSE IF extraction.raised
                 THEN /\ reply' = PdfReply(422, "Unable to extract text from PDF.", "")
                      \* lines 514-515, except HTTPException: raise; the file stays
                      /\ files' = files \cup {file_path}
                      /\ UNCHANGED pdfs
                 ELSE IF pages = <<>>
                 THEN /\ reply' = PdfReply(422, "No text could be extracted from this PDF.", "")
                      /\ files' = files \ {file_path}
                      /\ UNCHANGED pdfs
                 ELSE IF ~db_connected
                 THEN /\ reply' = PdfReply(500, "Database not connected", "")
                      /\ files' = files \cup {file_path}
                      /\ UNCHANGED pdfs
                 ELSE /\ reply' = PdfReply(200, "PDF uploaded successfully", pdf_id)
                      /\ files' = files \cup {file_path}
                      /\ pdfs' = Put(pdfs, pdf_id,
                                     [is_image_based |-> ~has_real_text,
                                      words |-> {},
                                      pages_text |-> pages,
                                      file_path |-> file_path])
    /\ UNCHANGED <<pc, api_key, db_connected, quizzes, upstream, llm_out, attempts,
                   chats, turns, citeVars, chunkVars>>

\* The mutant of DeleteOne: the record stays.
KeepRecord(collection, id) == collection

\* delete_one({"_id": id})
DeleteOne(collection, id) == [x \in (DOMAIN collection) \ {id} |-> collection[x]]

\* delete_pdf (lines 567-580).
DeletePdf ==
    /\ served < MaxPdfRequests
    /\ served' = served + 1
    /\ \E id \in (DOMAIN pdfs) \cup {"p404", "bad!"} :
          /\ request' = [op |-> "delete", pdf_id |-> id]
          /\ IF ~db_connected
             THEN /\ reply' = PdfReply(500, "Database not connected", id)
                  /\ UNCHANGED <<files, pdfs>>
             ELSE IF ~WellFormedId(id)
             THEN /\ reply' = PdfReply(500, "Internal Server Error", id)
                  /\ UNCHANGED <<files, pdfs>>
             ELSE IF id \notin DOMAIN pdfs
             THEN /\ reply' = PdfReply(404, "PDF not found", id)
                  /\ UNCHANGED <<files, pdfs>>
             ELSE /\ files' = files \ {pdfs[id].file_path}
                  /\ pdfs' = DeleteOne(pdfs, id)
                  /\ reply' = PdfReply(200, "PDF deleted successfully", id)
    /\ UNCHANGED <<pc, api_key, db_connected, quizzes, upstream, llm_out, attempts,
                   chats, turns, citeVars, chunkVars>>

\* The store of two documents; the file of p2 is gone from the directory.
PdfInit ==
    /\ api_key = ""
    /\ db_connected \in BOOLEAN
    /\ pdfs = StoredPdfs
    /\ quizzes = <<>>
    /\ request = [op |-> "none", pdf_id |-> ""]
    /\ upstream = NoUpstream
    /\ llm_out = NoCall
    /\ reply = NoReply
    /\ attempts = <<>>
    /\ chats = <<>>
    /\ files \in {StoredFiles, {PathOf("p1")}}
    /\ turns = <<>>
    /\ served = 0

\* No attempt, chat or file, and no request being served.
StudyIdle ==
    /\ attempts = <<>>
    /\ chats = <<>>
    /\ files = StoredFiles
    /\ turns = <<>>
    /\ served = 0

(***************************************************************************)
(* Specifications.                                                         *)
(***************************************************************************)
SpecCiteInit == pc = "call" /\ CiteInit /\ ChunkIdle /\ ServerIdle /\ StudyIdle

SpecCiteNext == FindCitations

SpecCite == SpecCiteInit /\ [][SpecCiteNext]_vars

SpecChunkInit == pc = "call" /\ ChunkInit /\ CiteIdle /\ ServerIdle /\ StudyIdle

SpecChunkNext == ChunkText

SpecChunk == SpecChunkInit /\ [][SpecChunkNext]_vars

SpecQuizInit == pc = "call" /\ QuizInit /\ CiteIdle /\ ChunkIdle /\ StudyIdle

SpecQuizNext == GenerateQuiz

SpecQuiz == SpecQuizInit /\ [][SpecQuizNext]_vars

SpecRecInit == pc = "call" /\ RecInit /\ CiteIdle /\ ChunkIdle /\ StudyIdle

SpecRecNext == RecommendYoutube

SpecRec == SpecRecInit /\ [][SpecRecNext]_vars

SpecLlmInit == pc = "call" /\ LlmInit /\ CiteIdle /\ ChunkIdle /\ StudyIdle

SpecLlmNext == CallLlm

SpecLlm == SpecLlmInit /\ [][SpecLlmNext]_vars

SpecSubmitInit == pc = "call" /\ SubmitInit /\ CiteIdle /\ ChunkIdle

SpecSubmitNext == SubmitQuiz

SpecSubmit == SpecSubmitInit /\ [][SpecSubmitNext]_vars

\* delete_chat (lines 912-925): delete_one on the chats collection, 404
\* when nothing was deleted.
DeleteChat ==
    /\ \E id \in (DOMAIN chats) \cup {9, MalformedChatId} :
          IF ~db_connected
          THEN /\ reply' = [status |-> 500, detail |-> "Database not connected"]
               /\ UNCHANGED chats
          ELSE IF id = MalformedChatId
          THEN /\ reply' = [status |-> 500, detail |-> "InvalidId"]
               /\ UNCHANGED chats
          ELSE IF id \notin DOMAIN chats
          THEN /\ reply' = [status |-> 404, detail |-> "Chat not found"]
               /\ UNCHANGED chats
          ELSE /\ chats' = DeleteOne(chats, id)
               /\ reply' = [status |-> 200, detail |-> "Chat deleted successfully"]
    /\ UNCHANGED <<pc, api_key, db_connected, pdfs, quizzes, request, upstream, llm_out,
                   attempts, files, turns, served, citeVars, chunkVars>>

SpecChatInit == pc = "serve" /\ ChatInit /\ CiteIdle /\ ChunkIdle

SpecChatNext ==
    \E r \in Clients : ChatLookup(r) \/ ChatCite(r) \/ ChatCallLlm(r) \/ ChatSave(r)

SpecChat == SpecChatInit /\ [][SpecChatNext]_vars

SpecChatSeqNext ==
    \E r \in Clients : ChatLookupAlone(r) \/ ChatCite(r) \/ ChatCallLlm(r) \/ ChatSave(r)

SpecChatSeq == SpecChatInit /\ [][SpecChatSeqNext]_vars

\* The chat turns together with delete_chat requests.
SpecChatDelNext ==
    \/ \E r \in Clients : ChatLookup(r) \/ ChatCite(r) \/ ChatCallLlm(r) \/ ChatSave(r)
    \/ DeleteChat

SpecChatDel == SpecChatInit /\ [][SpecChatDelNext]_vars

SpecPdfInit == pc = "serve" /\ PdfInit /\ CiteIdle /\ ChunkIdle

SpecPdfNext == UploadPdf \/ DeletePdf

SpecPdf == SpecPdfInit /\ [][SpecPdfNext]_vars

SpecProgressInit == pc = "done" /\ ProgressInit /\ CiteIdle /\ ChunkIdle

SpecProgressNext == ReceiveSubmission \/ SubmitQuiz \/ GetProgress

SpecProgress == SpecProgressInit /\ [][SpecProgressNext]_vars

(***************************************************************************)
(* Claims about find_citations (SpecCite).                                 *)
(***************************************************************************)
Returned == {citations[i] : i \in 1..Len(citations)}

\* C1: for a limit k >= 0 find_citations returns at most k citations, in
\* non-increasing order of relevance, and citations of equal relevance keep
\* the order of the page map.
C1_AtMostKSorted ==
    (pc = "done" /\ top_k >= 0) =>
        /\ Len(citations) <= top_k
        /\ \A i, j \in 1..Len(citations) :
              i < j => /\ citations[i].relevance >= citations[j].relevance
                       /\ citations[i].relevance = citations[j].relevance
                            => citations[i].page < citations[j].page

\* C1's case: the limit cuts the list, the sort moved a later page to the
\* front, and two citations tie.
C1_Witness ==
    /\ pc = "done" /\ top_k = 2 /\ Len(pages_text) = 3 /\ Len(citations) = 2
    /\ citations[1].page = 3
    /\ citations[1].relevance > citations[2].relevance
    /\ citations[2].page = 1

\* C2: every returned snippet, as returned after the cut to 200 characters,
\* contains at least one of the lowercase query words.
C2_SnippetHasQueryWord ==
    pc = "done" =>
        \A c \in Returned : Matches(QueryWords(query), Lower(c.snippet)) >= 1

\* C3: every returned snippet has at most 200 characters in total, the
\* ellipsis included.
C3_SnippetAtMost200 ==
    pc = "done" => \A c \in Returned : Len(c.snippet) <= 200

\* The trimmed sentence the claim C4 describes: among the first ten
\* period-delimited sentences of the page, the first one with the highest
\* count of distinct query words.
FirstBestOfTen(q, t) ==
    LET sents == SplitOn(t, ".")
        n == Min(Len(sents), 10)
        count(i) == Matches(QueryWords(q), Lower(sents[i]))
        best == {i \in 1..n : \A j \in 1..n : count(j) <= count(i)}
    IN  Strip(sents[Nth(best, 1)])

\* The cut of a sentence longer than 200 characters: its first 200
\* characters followed by "...".
CutTo200(s) == IF Len(s) > 200 THEN SubSeq(s, 1, 200) \o <<".", ".", ".">> ELSE s

\* The worked example: page map {"1": "The cat sat on the mat. Dogs bark
\* loudly."} and query "cat mat" give one citation, page 1, relevance 2.
CatMatExample ==
    (query = CatMatQuery /\ pages_text = <<CatMatText>> /\ top_k = 3) =>
        citations = <<[page |-> 1, snippet |-> CatMatSnippet, relevance |-> 2]>>

\* C4 as stated: the snippet of an included page is the trimmed first-best
\* sentence itself, and the relevance is the whole-page count.
C4_SnippetIsBestSentence ==
    pc = "done" =>
        /\ \A c \in Returned :
              /\ c.snippet = FirstBestOfTen(query, pages_text[c.page])
              /\ c.relevance = Matches(QueryWords(query), Lower(pages_text[c.page]))
        /\ CatMatExample

\* C4 (amended): the snippet of an included page is the trimmed first-best
\* sentence among the first ten, cut to its first 200 characters plus "..."
\* when it is longer than 200; the relevance is the whole-page count; and the
\* worked example gives page 1, "The cat sat on the mat", relevance 2.
C4_SnippetIsCutBestSentence ==
    pc = "done" =>
        /\ \A c \in Returned :
              /\ c.snippet = CutTo200(FirstBestOfTen(query, pages_text[c.page]))
              /\ c.relevance = Matches(QueryWords(query), Lower(pages_text[c.page]))
        /\ CatMatExample

\* C4's case: an included page whose eleventh sentence matches a query word
\* that none of its first ten does, so the relevance exceeds the snippet's
\* own count.
C4_Witness ==
    /\ pc = "done"
    /\ \E c \in Returned :
          LET sents == SplitOn(pages_text[c.page], ".")
          IN  /\ Len(sents) > 10
              /\ Matches(QueryWords(query), Lower(sents[11])) >= 1
              /\ c.relevance = 2
              /\ Matches(QueryWords(query), Lower(c.snippet)) = 1

(***************************************************************************)
(* Claims about chunk_text (SpecChunk).                                    *)
(***************************************************************************)
\* C5: for a text with at least one word, the words of the chunks, chunk by
\* chunk, are the words of the text in order, and the chunks joined by
\* single spaces are the words joined by single spaces.
C5_ChunksReproduceWords ==
    (pc = "done" /\ Split(text) # <<>>) =>
        /\ Flatten([i \in 1..Len(chunks) |-> Split(chunks[i])]) = Split(text)
        /\ Join(chunks, <<" ">>) = Join(Split(text), <<" ">>)

\* C6: a chunk of two or more words has at most chunk_size characters.
C6_MultiWordChunkFits ==
    pc = "done" =>
        \A i \in 1..Len(chunks) :
            Len(Split(chunks[i])) >= 2 => Len(chunks[i]) <= chunk_size

\* C6's case: one chunk of two words fills chunk_size exactly, and a chunk
\* of one word is longer than chunk_size.
C6_Witness ==
    /\ pc = "done"
    /\ \E i \in 1..Len(chunks) :
          Len(Split(chunks[i])) = 2 /\ Len(chunks[i]) = chunk_size
    /\ \E i \in 1..Len(chunks) :
          Len(Split(chunks[i])) = 1 /\ Len(chunks[i]) > chunk_size

(***************************************************************************)
(* Claims about generate_quiz (SpecQuiz).                                  *)
(***************************************************************************)
\* The request reaches the parser and the store: the database is connected
\* and the document is absent from the request or stored with text.
QuizServed == db_connected /\ request.pdf_id \in {"", "p1"}

\* The schema-valid elements of a parsed array, validated, in their order.
ValidElements(items) ==
    LET kept == SelectSeq(items, SchemaValid)
    IN  [i \in 1..Len(kept) |-> QuizQuestion(kept[i])]

\* A parse result that is an array with at least one schema-valid element.
HasValidElement(r) ==
    r.ok /\ r.val.t = "list" /\ ValidElements(r.val.items) # <<>>

\* The stored and returned quiz holds exactly these questions.
QuizIs(questions) ==
    /\ reply.status = 200
    /\ reply.questions = questions
    /\ Len(quizzes) = 1
    /\ quizzes[1]._id = reply.quiz_id
    /\ quizzes[1].questions = questions

\* Every line that starts with a fence removed, whatever the text starts with.
EveryFenceLineRemoved(response) ==
    Strip(Join(SelectSeq(SplitOn(response, "\n"), NotFenceLine), <<"\n">>))

\* The text from the first "[" to the last "]", whatever it starts with.
FirstToLastBracket(response) ==
    LET opens == {i \in 1..Len(response) : response[i] = "["}
        closes == {i \in 1..Len(response) : response[i] = "]"}
    IN  IF opens # {} /\ closes # {}
           /\ Nth(closes, Cardinality(closes)) > Nth(opens, 1)
        THEN SubSeq(response, Nth(opens, 1), Nth(closes, Cardinality(closes)))
        ELSE response

\* C7 as stated: when the output, trimmed, with every fence line removed and
\* sliced from the first "[" to the last "]", is an array with a schema-valid
\* element, the stored and returned questions are exactly its schema-valid
\* elements in their order.
C7_UnconditionalCleaning ==
    LET r == json_loads(FirstToLastBracket(EveryFenceLineRemoved(Strip(llm_out.text))))
    IN  (pc = "done" /\ QuizServed /\ HasValidElement(r)) =>
            QuizIs(ValidElements(r.val.items))

\* C7 as amended: when the output, trimmed, with the fence lines removed if
\* it starts with a fence, and sliced from the first "[" to the last "]" if
\* it does not then start with "[", is an array with a schema-valid element,
\* the stored and returned questions are exactly its schema-valid elements
\* in their order.
C7_ValidElementsKept ==
    LET r == json_loads(Clean(llm_out.text))
    IN  (pc = "done" /\ QuizServed /\ HasValidElement(r)) =>
            QuizIs(ValidElements(r.val.items))

\* C7's case: a fenced array of an invalid and a valid element gave a quiz
\* of exactly the valid one.
C7_Witness ==
    LET r == json_loads(Clean(llm_out.text))
    IN  /\ pc = "done"
        /\ QuizServed
        /\ StartsWith(llm_out.text, Fence)
        /\ r.ok /\ r.val.t = "list" /\ Len(r.val.items) = 2
        /\ ~SchemaValid(r.val.items[1])
        /\ SchemaValid(r.val.items[2])
        /\ QuizIs(<<QuizQuestion(r.val.items[2])>>)

\* C8: with the database connected and the document absent from the request
\* or stored with text, generate_quiz succeeds and stores and returns a quiz
\* of at least one question; an output that is no JSON, no array, or an
\* array without a schema-valid element gives exactly one placeholder SAQ.
C8_AlwaysAQuiz ==
    LET r == json_loads(Clean(llm_out.text))
    IN  (pc = "done" /\ QuizServed) =>
            /\ llm_out.called
            /\ QuizIs(reply.questions)
            /\ Len(reply.questions) >= 1
            /\ ~HasValidElement(r) =>
                  /\ Len(reply.questions) = 1
                  /\ reply.questions[1] \in {ParseFallbackQuestion, EmptyFallbackQuestion}
                  /\ reply.questions[1].question_type = "SAQ"

\* C8's case: an array cut before its closing bracket gave the one
\* placeholder question of a failed parse.
C8_Witness ==
    /\ pc = "done"
    /\ QuizServed
    /\ request.pdf_id = "p1"
    /\ StartsWith(Clean(llm_out.text), <<"[">>)
    /\ ~json_loads(Clean(llm_out.text)).ok
    /\ QuizIs(<<ParseFallbackQuestion>>)

(***************************************************************************)
(* Claims about recommend_youtube (SpecRec).                               *)
(***************************************************************************)
\* C9: for every output text recommend_youtube returns 200 and a non-empty
\* list: the parsed list when the cleaned output is a non-empty JSON list,
\* else the three fallback entries built from the topic.
C9_AlwaysRecommendations ==
    LET r == json_loads(Clean(llm_out.text))
    IN  (pc = "done" /\ llm_out.called) =>
            /\ ~llm_out.raised
            /\ reply.status = 200
            /\ reply.topic = request.topic
            /\ reply.recommendations # <<>>
            /\ IF r.ok /\ r.val.t = "list" /\ r.val.items # <<>>
               THEN reply.recommendations = r.val.items
               ELSE /\ reply.recommendations = FallbackRecommendations(request.topic)
                    /\ Len(reply.recommendations) = 3

\* C9's case: the output was an empty JSON list and the three fallback
\* entries were returned.
C9_Witness ==
    LET r == json_loads(Clean(llm_out.text))
    IN  /\ pc = "done"
        /\ llm_out.called
        /\ upstream.body = "content"
        /\ r.ok /\ r.val.t = "list" /\ r.val.items = <<>>
        /\ reply.status = 200
        /\ reply.recommendations = FallbackRecommendations(request.topic)

(***************************************************************************)
(* Claims about call_llm (SpecLlm).                                        *)
(***************************************************************************)
\* The failure classes: no or placeholder key, a timeout, a status outside
\* 2xx (401 and 429 among them), a 2xx body without choices.
UpstreamFailed ==
    \/ NotConfigured(api_key)
    \/ upstream.kind = "timeout"
    \/ upstream.kind = "response" /\ ~IsSuccess(upstream.status)
    \/ upstream.kind = "response" /\ upstream.body \in {"nochoices", "emptychoices"}

\* A 2xx response with choices, the first one carrying a content string.
UpstreamAnswered ==
    /\ ~NotConfigured(api_key)
    /\ upstream.kind = "response"
    /\ IsSuccess(upstream.status)
    /\ upstream.body = "content"

\* C10: with fallback enabled call_llm never raises, returns the fallback
\* text for each failure class and the first choice's content on a 2xx
\* response with choices; with fallback disabled each failure class raises
\* 503 and returns no text.
C10_FallbackOrUnavailable ==
    pc = "done" =>
        /\ request.use_fallback =>
              /\ ~llm_out.raised
              /\ UpstreamFailed =>
                    llm_out.text = get_fallback_response(request.prompt,
                                                         request.system_prompt)
              /\ UpstreamAnswered => llm_out.text = upstream.text
        /\ (~request.use_fallback /\ UpstreamFailed) =>
              /\ llm_out.raised
              /\ llm_out.status = 503
              /\ llm_out.text = <<>>
        /\ (~request.use_fallback /\ UpstreamAnswered) =>
              /\ ~llm_out.raised
              /\ llm_out.text = upstream.text

\* C10's case: with fallback enabled a 429 was answered by the fallback
\* text, which is not the text of the response.
C10_Witness ==
    /\ pc = "done"
    /\ request.use_fallback
    /\ upstream.kind = "response"
    /\ upstream.status = 429
    /\ upstream.body = "content"
    /\ ~llm_out.raised
    /\ llm_out.text = get_fallback_response(request.prompt, request.system_prompt)
    /\ llm_out.text # upstream.text

(***************************************************************************)
(* Claims about submit_quiz (SpecSubmit).                                  *)
(***************************************************************************)
\* The answer submitted for index idx: that of the last entry of the
\* request with this index, the empty string when there is none.
LastAnswerFor(idx) ==
    LET at == {i \in 1..Len(request.answers) : request.answers[i].question_index = idx}
    IN  IF at = {} THEN <<>> ELSE request.answers[Nth(at, Cardinality(at))].user_answer

\* The questions (1-based) whose submitted answer equals the correct answer
\* after trimming and ignoring case.
CorrectlyAnswered(questions) ==
    {i \in 1..Len(questions) :
        Lower(Strip(LastAnswerFor(i - 1))) = Lower(Strip(questions[i].correct_answer))}

\* C11: submit_quiz on an existing quiz counts exactly the questions whose
\* last submitted answer equals correct_answer after trimming and ignoring
\* case, and returns and stores score_percentage = correct / total x 100,
\* or 0 for a quiz without questions; 0 <= correct_count <= total.
C11_ScoreIsCorrectOverTotal ==
    (pc = "done" /\ db_connected /\ FindOne(quizzes, request.quiz_id) # <<>>) =>
        LET questions == FindOne(quizzes, request.quiz_id)[1].questions
            total == Len(questions)
            correct == Cardinality(CorrectlyAnswered(questions))
        IN  /\ reply.status = 200
            /\ reply.total_questions = total
            /\ reply.correct_answers = correct
            /\ \A i \in 1..total :
                  /\ reply.results[i].is_correct = (i \in CorrectlyAnswered(questions))
                  /\ reply.results[i].user_answer = LastAnswerFor(i - 1)
            /\ Len(reply.results) = total
            /\ 0 <= reply.correct_answers /\ reply.correct_answers <= total
            /\ IF total = 0
               THEN reply.score_percentage.num = 0
               ELSE reply.score_percentage.num * total
                       = 100 * correct * reply.score_percentage.den
            /\ reply.score_percentage.den > 0
            /\ Len(attempts) = 1
            /\ attempts[1].quiz_id = request.quiz_id
            /\ attempts[1].total_questions = total
            /\ attempts[1].correct_answers = correct
            /\ attempts[1].score_percentage = reply.score_percentage
            /\ attempts[1].results = reply.results

\* C11's case: an index was submitted twice, the first answer wrong and the
\* last one right up to case and blanks, and the question counted as correct
\* while another question had no answer: one of two, 50 percent.
C11_Witness ==
    /\ pc = "done"
    /\ reply.status = 200
    /\ request.quiz_id = 2
    /\ Len(request.answers) = 2
    /\ request.answers[1].question_index = 0
    /\ request.answers[2].question_index = 0
    /\ request.answers[1].user_answer = <<"b", "a">>
    /\ request.answers[2].user_answer = <<"A", " ">>
    /\ reply.correct_answers = 1
    /\ reply.total_questions = 2
    /\ reply.score_percentage.num = 50 * reply.score_percentage.den
    /\ reply.results[2].user_answer = <<>>

(***************************************************************************)
(* Claims about get_progress (SpecProgress).                               *)
(***************************************************************************)
\* C14: overall_score is weighted by question counts: it is 100 x (the sum
\* of the correct answers) / (the sum of the questions) over the attempts,
\* to one decimal.
C14_OverallScoreIsWeighted ==
    (pc = "done" /\ reply.status = 200 /\ "overall_score" \in DOMAIN reply
        /\ reply.total_quizzes = Len(attempts)
        /\ SumOf(attempts, "total_questions") > 0) =>
        reply.overall_score
            = Ratio(RoundTenths(Ratio(100 * SumOf(attempts, "correct_answers"),
                                      SumOf(attempts, "total_questions"))), 10)

(***************************************************************************)
(* Claims about chat (SpecChat, SpecChatSeq).                              *)
(***************************************************************************)
\* C12, for chat: a request whose chat_id or pdf_id is not in the store is
\* answered with a 4xx status and a message, and when it is the only
\* request served the chats are as they were.
C12_MissingReferenceIsClientError ==
    \A r \in Clients :
        (/\ turns[r].pc = "done"
         /\ db_connected
         /\ turns[r].request.chat_id = 9 \/ turns[r].request.pdf_id = "p404") =>
            /\ turns[r].reply.status \in 400..499
            /\ turns[r].reply.detail # ""
            /\ served = 1 => chats = StoredChats

\* The pair of messages that the request r appends.
PairOf(r) ==
    <<UserMessage(turns[r].request.message),
      AssistantMessage(turns[r].response_text, turns[r].citations)>>

\* r writes the chat that o, done with success, wrote after both had read
\* the same message list.
WritesAfter(r, o) ==
    /\ turns[r].pc = "save"
    /\ turns'[r].pc = "done"
    /\ db_connected
    /\ turns[r].request.chat_id # NoChatId
    /\ turns[o].pc = "done"
    /\ turns[o].reply.status = 200
    /\ turns[o].request.chat_id = turns[r].request.chat_id
    /\ turns[o].messages = turns[r].messages \o PairOf(o)

\* C15: when two turns on one existing chat both read it before either
\* writes, both succeed and after the later write the stored list is the
\* commonly read list plus the later turn's pair only.
C15_LastWriterWins ==
    [][\A r \in Clients : \A o \in Clients \ {r} :
          WritesAfter(r, o) =>
              /\ turns'[r].reply.status = 200
              /\ chats'[turns[r].chat_id].messages = turns[r].messages \o PairOf(r)
              /\ Len(chats'[turns[r].chat_id].messages)
                    = Len(chats[turns[r].chat_id].messages)]_vars

\* C15's case: both requests succeeded on chat 1 having read its two
\* messages, their pairs differ, and the stored list holds one pair only.
C15_Witness ==
    /\ \A r \in Clients :
          /\ turns[r].pc = "done"
          /\ turns[r].reply.status = 200
          /\ turns[r].request.chat_id = 1
          /\ turns[r].messages = StoredChats[1].messages \o PairOf(r)
    /\ PairOf("r1") # PairOf("r2")
    /\ chats[1].messages \in {turns[r].messages : r \in Clients}
    /\ Len(chats[1].messages) = 4

\* The message list of a chat, empty for a chat not yet stored.
MessagesOf(store, id) == IF id \in DOMAIN store THEN store[id].messages ELSE <<>>

\* Even length, roles user, assistant alternating.
Alternating(messages) ==
    /\ Len(messages) % 2 = 0
    /\ \A i \in 1..Len(messages) :
          messages[i].role = IF i % 2 = 1 THEN "user" ELSE "assistant"

\* C16: without overlapping turns on a chat, a successful turn leaves the
\* stored list equal to the list before it followed by the user message of
\* the request and the assistant message of the reply; every stored chat
\* has an even number of messages with alternating roles, and no stored
\* message is ever changed or removed.
C16_TurnAppendsOnePair ==
    [][/\ \A r \in Clients :
             (turns[r].pc = "save" /\ turns'[r].pc = "done"
                 /\ turns'[r].reply.status = 200) =>
                 LET id == turns'[r].reply.chat_id
                 IN  /\ id \in DOMAIN chats'
                     /\ chats'[id].messages
                           = MessagesOf(chats, id)
                               \o <<UserMessage(turns[r].request.message),
                                    AssistantMessage(turns'[r].reply.message,
                                                     turns'[r].reply.citations)>>
       /\ \A id \in DOMAIN chats' : Alternating(chats'[id].messages)
       /\ \A id \in DOMAIN chats :
             /\ id \in DOMAIN chats'
             /\ Len(chats[id].messages) <= Len(chats'[id].messages)
             /\ SubSeq(chats'[id].messages, 1, Len(chats[id].messages))
                   = chats[id].messages]_vars

\* C16's case: two turns in a row on chat 1, the second with a citation,
\* left it with six messages.
C16_Witness ==
    /\ Len(chats[1].messages) = 6
    /\ chats[1].messages[6].citations # <<>>
    /\ \A r \in Clients : turns[r].pc = "done" /\ turns[r].reply.status = 200

(***************************************************************************)
(* Claims about upload_pdf and delete_pdf (SpecPdf).                       *)
(***************************************************************************)
\* C13: when upload_pdf answers 422, no document record was created and the
\* file saved for the upload is not in the upload directory.
C13_RejectedUploadLeavesNothing ==
    (served > 0 /\ request.op = "upload" /\ reply.status = 422) =>
        /\ FreshPdfId(served - 1) \notin DOMAIN pdfs
        /\ PathOf(FreshPdfId(served - 1)) \notin files

QuestionTypes == {"MCQ", "SAQ", "LAQ"}

\* An array element with all five fields, each of its type: three strings,
\* a type among MCQ, SAQ, LAQ, and options a list of strings for MCQ and
\* null otherwise.
FiveFieldsWellTyped(v) ==
    /\ v.t = "obj"
    /\ LET f == RawFields(v)
       IN  /\ f.question.k = "str"
           /\ f.correct_answer.k = "str"
           /\ f.explanation.k = "str"
           /\ f.question_type.k = "str"
           /\ f.question_type.v \in QuestionTypes
           /\ f.options.k = IF f.question_type.v = "MCQ" THEN "list" ELSE "null"

\* C18: every stored question has a type among MCQ, SAQ, LAQ and an options
\* list exactly when the type is MCQ, and no array element that lacks a
\* field or has a wrongly typed one is stored.
C18_StoredQuestionsWellFormed ==
    LET r == json_loads(Clean(llm_out.text))
    IN  \A n \in 1..Len(quizzes) : \A i \in 1..Len(quizzes[n].questions) :
            LET q == quizzes[n].questions[i]
            IN  /\ q.question_type \in QuestionTypes
                /\ q.options.present <=> q.question_type = "MCQ"
                /\ (r.ok /\ r.val.t = "list") =>
                      \A e \in 1..Len(r.val.items) :
                          (SchemaValid(r.val.items[e]) /\ q = QuizQuestion(r.val.items[e]))
                              => FiveFieldsWellTyped(r.val.items[e])

\* C19: without a usable upstream, a prompt holding "generate" and "quiz"
\* gets the array of one templated SAQ, and any other prompt holding
\* "youtube" or "video" gets the array of three video entries.
C19_FallbackByFeature ==
    (pc = "done" /\ request.use_fallback /\ NotConfigured(api_key)) =>
        LET kw == request.prompt.kw
        IN  IF "generate" \in kw /\ "quiz" \in kw
            THEN llm_out.text = FallbackQuiz
            ELSE ("youtube" \in kw \/ "video" \in kw) => llm_out.text = FallbackVideos

\* C20: chunk_text returns no empty chunk: every chunk holds a word, there
\* are at most as many chunks as words, and a text without words gives
\* the empty list.
C20_NoEmptyChunk ==
    pc = "done" =>
        /\ \A i \in 1..Len(chunks) : chunks[i] # <<>> /\ Split(chunks[i]) # <<>>
        /\ Len(chunks) <= Len(Split(text))
        /\ Split(text) = <<>> => chunks = <<>>

(***************************************************************************)
(* Claims about chat together with delete_chat (SpecChatDel).              *)
(***************************************************************************)
\* C21: when a chat request returns a success carrying a chat_id, a chat
\* with that id is in the store at that moment and its message list ends
\* with the user and assistant messages of that turn, for a new chat and
\* for an existing one, whatever delete_chat did since the turn read it.
C21_ReturnedChatIsStored ==
    [][\A r \in Clients :
          (turns[r].pc = "save" /\ turns'[r].pc = "done"
              /\ turns'[r].reply.status = 200) =>
              LET id == turns'[r].reply.chat_id
              IN  /\ id \in DOMAIN chats'
                  /\ Len(chats'[id].messages) >= 2
                  /\ SubSeq(chats'[id].messages, Len(chats'[id].messages) - 1,
                            Len(chats'[id].messages))
                        = <<UserMessage(turns[r].request.message),
                            AssistantMessage(turns'[r].reply.message,
                                             turns'[r].reply.citations)>>]_vars

=============================================================================
